---- MODULE Spec2Model ----
(***************************************************************************)
(* A model of the raft consensus module of mind1949/raft: the node         *)
(* (raft.go), its in-memory log (log.go) and the Leader role with its      *)
(* replication round and commit calculation (leader).                      *)
(*                                                                         *)
(* Five specifications share the state:                                    *)
(*   SpecElection  a cluster of nodes that time out, vote, win elections   *)
(*                 and restart (role conversions of raft.go);              *)
(*   Spec          one node in the Leader role: leader.Run, leader.Commit, *)
(*                 callAppendEntriesWithAll, calcCommitIndex, and          *)
(*                 ApplyCommitted as called by the apply worker;           *)
(*   SpecLoop      one node that receives AppendEntries, with the apply    *)
(*                 loop loopApplyCommitted and Stop, under weak fairness   *)
(*                 of the loop's own steps.                                *)
(*   SpecLog       the operations of memoryLog called with any arguments,  *)
(*                 the last call recorded in the variable call;            *)
(*   SpecApply     syncLeaderCommit and ApplyCommitted called on one node, *)
(*                 the last call recorded in the variable call.            *)
(***************************************************************************)
EXTENDS Integers, Sequences, FiniteSets, TLC

\* ---------------------------------------------------------------- bounds
NumNodes == 3       \* size of the fixed peer set (raft.peers)
MaxTerm == 2        \* elections stop raising currentTerm here
MaxLog == 3         \* longest log a node holds
MaxRounds == 2      \* replication rounds the Leader begins
MaxUnderflow == 1   \* how far below 1 failed responses take nextIndex
LeaderTerm == 2     \* currentTerm of the Leader that Spec follows

\* uint64 arithmetic of log.go is taken modulo WordMod; every index of the
\* model is far below it, so a wrap-around behaves as it does modulo 2^64.
WordMod == 1073741824

Nodes == 1..NumNodes
Self == 1
Followers == Nodes \ {Self}
Nil == 0            \* RaftId.isNil: the empty id
NilCommand == 0     \* the zero value of Command

Min(a, b) == IF a < b THEN a ELSE b

\* ---------------------------------------------------------------- log.go
\* A log is memoryLog.queue: a sequence of LogEntry records.
LogEntry(index, term, command) == [Index |-> index, Term |-> term, Command |-> command]

\* uint64(x)
U64(x) == x % WordMod

\* memoryLog.Get: the term of the entry at index, 0 when there is none.
Get(queue, index) ==
    IF U64(index) = 0 THEN 0
    ELSE LET i == U64(U64(index) - 1)
         IN IF i >= 0 /\ i < Len(queue) THEN queue[i + 1].Term ELSE 0

\* memoryLog.Match
Match(queue, index, term) == term = Get(queue, index)

\* memoryLog.last: <<index, term>> of the last entry, <<0, 0>> when empty.
Last(queue) ==
    IF Len(queue) = 0 THEN <<0, 0>>
    ELSE <<queue[Len(queue)].Index, queue[Len(queue)].Term>>

LastIndex(queue) == Last(queue)[1]
LastTerm(queue) == Last(queue)[2]

\* A version of RangeGet whose loop starts at k := i instead of i+1.
RangeGetFromI(queue, i, j) ==
    IF U64(j) <= U64(i) THEN <<>>
    ELSE LET i1 == U64(U64(i) - 1)
             j1 == U64(U64(j) - 1)
             k0 == i1
             k1 == Min(j1, Len(queue) - 1)
         IN IF k0 <= k1 THEN SubSeq(queue, k0 + 1, k1 + 1) ELSE <<>>

\* memoryLog.RangeGet: the loop  for k := i+1; k <= j && k < len; k++
\* after  i--; j--  in uint64.
RangeGet(queue, i, j) ==
    IF U64(j) <= U64(i) THEN <<>>
    ELSE LET i1 == U64(U64(i) - 1)
             j1 == U64(U64(j) - 1)
             k0 == U64(i1 + 1)
             k1 == Min(j1, Len(queue) - 1)
         IN IF k0 <= k1 THEN SubSeq(queue, k0 + 1, k1 + 1) ELSE <<>>

\* A version of popAfter that slices queue[:i+1].
popAfterInclusive(queue, i) ==
    IF U64(i) = Len(queue) THEN <<TRUE, queue>>
    ELSE IF U64(i) > Len(queue) THEN <<FALSE, queue>>
    ELSE <<TRUE, SubSeq(queue, 1, U64(i) + 1)>>

\* memoryLog.popAfter: <<ok, queue>>.
popAfter(queue, i) ==
    IF U64(i) = Len(queue) THEN <<TRUE, queue>>
    ELSE IF U64(i) > Len(queue) THEN <<FALSE, queue>>
    ELSE <<TRUE, SubSeq(queue, 1, U64(i))>>

\* A version of append that numbers the entries from start, not start + 1.
appendFromStart(queue, entries) ==
    LET start == LastIndex(queue)
    IN queue \o [k \in 1..Len(entries) |->
                    [entries[k] EXCEPT !.Index = U64(start + (k - 1))]]

\* memoryLog.append: indices are assigned after the current last index.
append(queue, entries) ==
    LET start == LastIndex(queue)
    IN queue \o [k \in 1..Len(entries) |->
                    [entries[k] EXCEPT !.Index = U64(start + (k - 1) + 1)]]

\* memoryLog.Append
LogAppend(queue, entries) == append(queue, entries)

\* memoryLog.AppendAt: <<ok, queue>>.
AppendAt(queue, prevIndex, entries) ==
    LET p == popAfter(queue, prevIndex)
    IN IF p[1] THEN <<TRUE, append(p[2], entries)>> ELSE <<FALSE, queue>>

\* memoryLog.AppendEntry: <<index, queue>>.
AppendEntry(queue, entry) ==
    LET start == LastIndex(queue)
        e == [entry EXCEPT !.Index = U64(start + 1)]
    IN <<e.Index, queue \o <<e>>>>

\* ----------------------------------------------------------------- state
VARIABLES
    currentTerm,   \* state.currentTerm of every node (persistent)
    votedFor,      \* state.votedFor of every node (persistent), Nil when unset
    role,          \* raft.server of every node: Follower, Candidate, Leader
    votes,         \* the votes a Candidate has been granted
    replies,       \* RequestVote results on their way back to the Candidate
    log,           \* raft.Log of node Self
    commitIndex,   \* state.commitIndex of node Self
    lastApplied,   \* state.lastApplied of node Self
    nextIndex,     \* leader.nextIndex
    matchIndex,    \* leader.matchIndex
    task,          \* the per-peer goroutine of a replication round
    round,         \* callAppendEntriesWithAll: channels, count, result
    runPc,         \* where leader.Run is
    stopped,       \* raft.done is closed
    loopPc,        \* where loopApplyCommitted is
    applied,       \* history: indices of the entries counted as applied
    calcSkip,      \* history: the term guard the last calcCommitIndex of the round stopped at
    call           \* history: the last call of SpecLog or SpecApply, its arguments and result

vars == <<currentTerm, votedFor, role, votes, replies, log, commitIndex, lastApplied,
          nextIndex, matchIndex, task, round, runPc, stopped, loopPc,
          applied, calcSkip, call>>

nodeVars == <<currentTerm, votedFor, role, votes, replies>>
leaderVars == <<nextIndex, matchIndex, task, round, runPc, calcSkip>>
applyVars == <<lastApplied, applied>>

\* The record of a call: the operation, the queue before it, its arguments
\* (index, j, term, entries) and what it returned (ok, result).
Called(op, queue, index, j, term, entries, ok, result) ==
    [op |-> op, queue |-> queue, index |-> index, j |-> j, term |-> term,
     entries |-> entries, ok |-> ok, result |-> result]

NoCall == Called("none", <<>>, 0, 0, 0, <<>>, TRUE, <<>>)

\* ------------------------------------------------- raft.go: conversions
\* raft.ToFollower(votedFor) without a term: the role changes, nothing else
\* (the votedFor argument is not stored).
ToFollower(n) ==
    /\ role' = [role EXCEPT ![n] = "Follower"]
    /\ UNCHANGED <<currentTerm, votedFor>>

\* raft.ToFollower(votedFor, term): SetCurrentTerm(term[0]) and the role.
ToFollowerTerm(n, term) ==
    /\ currentTerm' = [currentTerm EXCEPT ![n] = term]
    /\ role' = [role EXCEPT ![n] = "Follower"]

\* raft.ToCandidate: currentTerm + 1, vote for self.
ToCandidate(n) ==
    /\ currentTerm' = [currentTerm EXCEPT ![n] = currentTerm[n] + 1]
    /\ votedFor' = [votedFor EXCEPT ![n] = n]
    /\ role' = [role EXCEPT ![n] = "Candidate"]

\* raft.ToLeader: the role; the per-peer indexes it stores are LeaderNextIndex
\* and LeaderMatchIndex.
ToLeader(n) ==
    /\ role' = [role EXCEPT ![n] = "Leader"]
    /\ UNCHANGED <<currentTerm, votedFor>>

LeaderNextIndex(queue) == [p \in Nodes |-> LastIndex(queue) + 1]
LeaderMatchIndex == [p \in Nodes |-> 0]

\* raft.initServer: Leader when the persisted votedFor is the node itself,
\* Follower otherwise.
initServer(n) ==
    IF votedFor[n] # Nil /\ votedFor[n] = n THEN ToLeader(n) ELSE ToFollower(n)

\* raft.reactToRPCArgs: a term above currentTerm converts to Follower.
reactToRPCArgs(n, term) ==
    IF term > currentTerm[n] THEN ToFollowerTerm(n, term)
    ELSE UNCHANGED <<currentTerm, role>>

\* ------------------------------------------------------------ election
\* The variables of node Self's log, Leader role and apply loop, which the
\* election leaves alone.
selfVars == <<log, commitIndex, lastApplied, nextIndex, matchIndex, task, round,
              runPc, stopped, loopPc, applied, calcSkip, call>>

NoReply == [term |-> 0, granted |-> FALSE]

\* Election timeout of a Follower or Candidate: ToCandidate, and the
\* Candidate counts its own vote.
ElectionTimeout(n) ==
    /\ role[n] \in {"Follower", "Candidate"}
    /\ currentTerm[n] < MaxTerm
    /\ ToCandidate(n)
    /\ votes' = [votes EXCEPT ![n] = {n}]
    /\ UNCHANGED <<replies, selfVars>>

\* The RequestVote handler of node v, called by Candidate c: a higher term
\* is adopted (votedFor cleared, Follower); the vote is granted when the
\* term is current and votedFor is unset or c (all logs are empty here, so
\* the candidate's log is up to date).
HandleRequestVote(c, v) ==
    /\ c # v
    /\ role[c] = "Candidate"
    /\ replies[c][v] = NoReply
    /\ v \notin votes[c]
    /\ LET term == currentTerm[c]
           higher == term > currentTerm[v]
           voted == IF higher THEN Nil ELSE votedFor[v]
           grant == term >= currentTerm[v] /\ voted \in {Nil, c}
       IN /\ reactToRPCArgs(v, term)
          /\ votedFor' = [votedFor EXCEPT ![v] = IF grant THEN c ELSE voted]
          /\ votes' = IF higher THEN [votes EXCEPT ![v] = {}] ELSE votes
          /\ replies' = [replies EXCEPT ![c][v] =
                            [term |-> IF higher THEN term ELSE currentTerm[v],
                             granted |-> grant]]
    /\ UNCHANGED selfVars

\* Candidate c processes the result of v: a higher term converts it to
\* Follower, a vote of the current term is counted, an older one is ignored.
RecvVote(c, v) ==
    /\ replies[c][v] # NoReply
    /\ LET r == replies[c][v]
       IN /\ reactToRPCArgs(c, r.term)
          /\ votes' = IF role[c] = "Candidate" /\ r.granted /\ r.term = currentTerm[c]
                       THEN [votes EXCEPT ![c] = votes[c] \cup {v}]
                       ELSE votes
    /\ replies' = [replies EXCEPT ![c][v] = NoReply]
    /\ UNCHANGED <<votedFor, selfVars>>

\* A Candidate holding the votes of a majority converts to Leader.
BecomeLeader(c) ==
    /\ role[c] = "Candidate"
    /\ 2 * Cardinality(votes[c]) > NumNodes
    /\ ToLeader(c)
    /\ UNCHANGED <<votes, replies, selfVars>>

\* The AppendEntries handler of node f for a heartbeat of Leader l: a lower
\* term is rejected, a higher one adopted (votedFor cleared), and a
\* Candidate of the same term steps down.
HandleHeartbeat(l, f) ==
    /\ l # f
    /\ role[l] = "Leader"
    /\ currentTerm[l] >= currentTerm[f]
    /\ role[f] # "Leader" \/ currentTerm[l] > currentTerm[f]
    /\ ToFollowerTerm(f, currentTerm[l])
    /\ votedFor' = [votedFor EXCEPT ![f] =
                       IF currentTerm[l] > currentTerm[f] THEN Nil ELSE votedFor[f]]
    /\ votes' = [votes EXCEPT ![f] = {}]
    /\ UNCHANGED <<replies, selfVars>>

\* A node stops and is started again (raft.New): the persistent state is
\* read back and initServer picks the role.
Restart(n) ==
    /\ initServer(n)
    /\ votes' = [votes EXCEPT ![n] = {}]
    /\ replies' = [replies EXCEPT ![n] = [v \in Nodes |-> NoReply]]
    /\ UNCHANGED selfVars

InitNodes ==
    /\ currentTerm = [n \in Nodes |-> 0]
    /\ votedFor = [n \in Nodes |-> Nil]
    /\ role = [n \in Nodes |-> "Follower"]
    /\ votes = [n \in Nodes |-> {}]
    /\ replies = [c \in Nodes |-> [v \in Nodes |-> NoReply]]

\* ---------------------------------------------------- raft.go: applying
\* sync.Cond.Signal on commitCond: a waiting apply loop is woken, and a
\* signal with nobody waiting is lost.
Signal == loopPc' = IF loopPc = "waiting" THEN "woken" ELSE loopPc

\* raft.syncLeaderCommit, queue being the log r.Last() reads.
syncLeaderCommit(queue, leaderCommit) ==
    IF leaderCommit <= commitIndex
    THEN UNCHANGED <<commitIndex, loopPc>>
    ELSE /\ commitIndex' = Min(leaderCommit, LastIndex(queue))
         /\ Signal

\* A version of CommittedEntries that keeps the zero local for lastApplied.
CommittedEntriesFromZero == RangeGet(log, 0, commitIndex)

\* The entries raft.ApplyCommitted hands to the apply callback: the locals
\* start at zero and are read from the state when commitIndex <= lastApplied
\* holds of the zeros.
CommittedEntries ==
    LET ci0 == 0
        la0 == 0
        ci == IF ci0 <= la0 THEN commitIndex ELSE ci0
        la == IF ci0 <= la0 THEN lastApplied ELSE la0
    IN RangeGet(log, la, ci)

\* A version of ApplyCommitted without SetLastApplied.
ApplyCommittedNoSet(appliedCount) ==
    /\ lastApplied' = lastApplied
    /\ applied' = applied \o [k \in 1..appliedCount |-> CommittedEntries[k].Index]

\* raft.ApplyCommitted with a callback that returns appliedCount: the first
\* appliedCount commands count as applied, and lastApplied grows by it.
ApplyCommitted(appliedCount) ==
    /\ lastApplied' = lastApplied + appliedCount
    /\ applied' = applied \o [k \in 1..appliedCount |-> CommittedEntries[k].Index]

\* --------------------------------------------------------------- leader
\* A peer goroutine: where it is, its local nextIndex, the AppendEntriesArgs
\* of its call (Term, PrevLogIndex, the number of Entries and the Index of
\* the last one), the Term of the results it processed last, and the index
\* calcCommitIndex is about to commit.
IdleTask == [pc |-> "ended", nextIndex |-> 0, prevLogIndex |-> 0,
             numEntries |-> 0, lastEntryIndex |-> 0, term |-> 0, respTerm |-> 0,
             N |-> 0]

\* A round: its result, whether its timer has fired (done is closed), the
\* items buffered in replicateCh and whether it is closed, the count of the
\* counting loop, the successful responses of the round (history) and the
\* number of the round.
IdleRound == [result |-> "idle", done |-> FALSE, tokens |-> 0, closed |-> FALSE,
              count |-> 0, acks |-> 0, n |-> 0]

AllEnded == \A p \in Followers : task[p].pc = "ended"

\* A round can begin when no other round is counting and the goroutines of
\* the last one have returned (rounds are not overlapped here).
CanStartRound == round.result # "running" /\ AllEnded /\ round.n < MaxRounds

\* callAppendEntriesWithAll up to its counting loop: the timer is armed, the
\* leader's own id puts one item on replicateCh, every other peer gets a
\* goroutine.
StartRound ==
    /\ round' = [result |-> "running", done |-> FALSE, tokens |-> 1,
                 closed |-> FALSE, count |-> 0, acks |-> 0, n |-> round.n + 1]
    /\ task' = [p \in Followers |-> [IdleTask EXCEPT !.pc = "top"]]
    /\ calcSkip' = "none"

\* The element sort.Ints leaves at position k (from 0) of the values.
SortedAt(values, k) ==
    CHOOSE x \in {values[i] : i \in DOMAIN values} :
        /\ Cardinality({i \in DOMAIN values : values[i] < x}) <= k
        /\ Cardinality({i \in DOMAIN values : values[i] <= x}) > k

\* A version of CalcOutcome without the check of the term of entry N.
CalcOutcomeNoTermGuard(mi) ==
    LET values == [i \in 1..(NumNodes + 1) |->
                     IF i <= NumNodes THEN mi[i] ELSE commitIndex]
        N == SortedAt(values, Len(values) \div 2)
    IN IF LastTerm(log) # currentTerm[Self] THEN [why |-> "lastTerm", N |-> 0]
       ELSE IF N <= commitIndex THEN [why |-> "notAbove", N |-> 0]
       ELSE [why |-> "set", N |-> N]

\* leader.calcCommitIndex up to SetCommitIndex, over the matchIndex map mi:
\* the outcome and the index N it would commit.
CalcOutcome(mi) ==
    LET values == [i \in 1..(NumNodes + 1) |->
                     IF i <= NumNodes THEN mi[i] ELSE commitIndex]
        mid == Len(values) \div 2
        N == SortedAt(values, mid)
    IN IF LastTerm(log) # currentTerm[Self] THEN [why |-> "lastTerm", N |-> 0]
       ELSE IF N <= commitIndex THEN [why |-> "notAbove", N |-> 0]
       ELSE IF Get(log, N) # currentTerm[Self] THEN [why |-> "priorTerm", N |-> 0]
       ELSE [why |-> "set", N |-> N]

\* The entries a peer goroutine sends for nextIndex ni: none unless the last
\* entry is of the current term and the log reaches ni.
EntriesFor(ni) ==
    IF LastTerm(log) = currentTerm[Self] /\ LastIndex(log) >= ni
    THEN RangeGet(log, ni - 1, LastIndex(log))
    ELSE <<>>

\* Top of the goroutine's loop: it returns when the round's timer has fired,
\* and otherwise builds AppendEntriesArgs from nextIndex and calls the peer.
TaskTop(p) ==
    /\ task[p].pc = "top"
    /\ IF round.done
       THEN task' = [task EXCEPT ![p] = IdleTask]
       ELSE LET ni == nextIndex[p]
                entries == EntriesFor(ni)
            IN task' = [task EXCEPT ![p] =
                 [pc |-> "called", nextIndex |-> ni, prevLogIndex |-> ni - 1,
                  numEntries |-> Len(entries),
                  lastEntryIndex |-> IF Len(entries) > 0
                                     THEN entries[Len(entries)].Index ELSE 0,
                  term |-> currentTerm[Self], respTerm |-> 0, N |-> 0]]
    /\ UNCHANGED <<nodeVars, call, log, commitIndex, applyVars, nextIndex, matchIndex,
                   round, runPc, stopped, loopPc, calcSkip>>

\* CallAppendEntries returns an error: the goroutine returns.
TaskError(p) ==
    /\ task[p].pc = "called"
    /\ task' = [task EXCEPT ![p] = IdleTask]
    /\ UNCHANGED <<nodeVars, call, log, commitIndex, applyVars, nextIndex, matchIndex,
                   round, runPc, stopped, loopPc, calcSkip>>

\* The indexes stored on results.Success.
SuccessNextIndex(p) ==
    IF task[p].numEntries > 0
    THEN [nextIndex EXCEPT ![p] = task[p].lastEntryIndex + 1]
    ELSE nextIndex

SuccessMatchIndex(p) == [matchIndex EXCEPT ![p] = task[p].prevLogIndex]

\* results.Success: nextIndex and matchIndex are stored, replicateCh gets an
\* item, and calcCommitIndex runs up to its SetCommitIndex.  A peer can
\* answer success only for a prevLogIndex its log can hold.  Once the round
\* has returned nobody receives from replicateCh, whose buffer holds an item
\* per peer, so the item is left out: round keeps what the round saw.
TaskSuccess(p) ==
    /\ task[p].pc = "called"
    /\ task[p].prevLogIndex >= 0
    /\ nextIndex' = SuccessNextIndex(p)
    /\ matchIndex' = SuccessMatchIndex(p)
    /\ round' = IF round.result = "running"
                THEN [round EXCEPT !.tokens = @ + 1, !.acks = @ + 1]
                ELSE round
    /\ LET c == CalcOutcome(matchIndex')
       IN /\ calcSkip' = IF c.why \in {"lastTerm", "priorTerm"} THEN c.why ELSE "none"
          /\ task' = [task EXCEPT ![p] =
                IF c.why = "set" THEN [IdleTask EXCEPT !.pc = "calc", !.N = c.N]
                ELSE IdleTask]
    /\ UNCHANGED <<nodeVars, call, log, commitIndex, applyVars, runPc, stopped,
                   loopPc>>

\* The end of calcCommitIndex: SetCommitIndex(nextCommitIndex) and the
\* signal to the apply loop.
TaskSetCommit(p) ==
    /\ task[p].pc = "calc"
    /\ commitIndex' = task[p].N
    /\ Signal
    /\ task' = [task EXCEPT ![p] = IdleTask]
    /\ UNCHANGED <<nodeVars, call, log, applyVars, nextIndex, matchIndex, round, runPc,
                   stopped, calcSkip>>

\* The index stored after a response without success.
FailNextIndex(p) == [nextIndex EXCEPT ![p] = task[p].nextIndex - 1]

\* results.Success is false, results.Term is term: nextIndex is decremented
\* and the loop goes round.  A peer of the leader's term rejects only a
\* prevLogIndex its log does not match, which index 0 always does; a peer of
\* a later term rejects everything.
TaskFail(p, term) ==
    /\ task[p].pc = "called"
    /\ term = currentTerm[Self] => task[p].prevLogIndex >= 1
    /\ task[p].nextIndex - 1 >= 1 - MaxUnderflow
    /\ nextIndex' = FailNextIndex(p)
    /\ task' = [task EXCEPT ![p] =
                  [IdleTask EXCEPT !.pc = "top", !.term = task[p].term,
                                   !.respTerm = term]]
    /\ UNCHANGED <<nodeVars, call, log, commitIndex, applyVars, matchIndex, round,
                   runPc, stopped, loopPc, calcSkip>>

\* time.AfterFunc(timeout, close(done)): the round's timer fires.
Deadline ==
    /\ ~round.done
    /\ round.result = "running" \/ ~AllEnded
    /\ round' = [round EXCEPT !.done = TRUE]
    /\ UNCHANGED <<nodeVars, call, log, commitIndex, applyVars, nextIndex, matchIndex,
                   task, runPc, stopped, loopPc, calcSkip>>

\* The spawning goroutine: wg.Wait() has returned, the deferred
\* close(replicateCh) runs.
CloseReplicateCh ==
    /\ round.result = "running"
    /\ AllEnded
    /\ ~round.closed
    /\ round' = [round EXCEPT !.closed = TRUE]
    /\ UNCHANGED <<nodeVars, call, log, commitIndex, applyVars, nextIndex, matchIndex,
                   task, runPc, stopped, loopPc, calcSkip>>

\* Whether the count of the round is a majority: count > len(l.peers)/2.
IsMajority(count) == count > NumNodes \div 2

\* The round returns to leader.Run, which goes back to its select.
Returned(pc) == IF pc = "round" THEN "select" ELSE pc

\* case <-replicateCh: a buffered item is received, or the zero value of the
\* closed and drained channel; count++ and return nil on a majority.
RoundReceive ==
    /\ round.result = "running"
    /\ round.tokens > 0 \/ round.closed
    /\ LET count == round.count + 1
           result == IF IsMajority(count) THEN "nil" ELSE "running"
       IN /\ round' = [round EXCEPT !.count = count,
                                     !.tokens = IF @ > 0 THEN @ - 1 ELSE 0,
                                     !.result = result]
          /\ runPc' = IF result = "nil" THEN Returned(runPc) ELSE runPc
    /\ UNCHANGED <<nodeVars, call, log, commitIndex, applyVars, nextIndex, matchIndex,
                   task, stopped, loopPc, calcSkip>>

\* case <-done: return ErrCommitTimeout.
RoundTimeout ==
    /\ round.result = "running"
    /\ round.done
    /\ round' = [round EXCEPT !.result = "ErrCommitTimeout"]
    /\ runPc' = Returned(runPc)
    /\ UNCHANGED <<nodeVars, call, log, commitIndex, applyVars, nextIndex, matchIndex,
                   task, stopped, loopPc, calcSkip>>

\* leader.Run: the round sent upon election, then one per tick of the ticker.
RunRound ==
    /\ \/ runPc = "start"
       \/ runPc = "select" /\ ~stopped
    /\ CanStartRound
    /\ StartRound
    /\ runPc' = "round"
    /\ UNCHANGED <<nodeVars, call, log, commitIndex, applyVars, nextIndex, matchIndex,
                   stopped, loopPc>>

\* leader.Run: case <-l.Done(): return nil, ErrStopped.
RunStopped ==
    /\ runPc = "select"
    /\ stopped
    /\ runPc' = "returned"
    /\ UNCHANGED <<nodeVars, call, log, commitIndex, applyVars, nextIndex, matchIndex,
                   task, round, stopped, loopPc, calcSkip>>

\* The entries leader.Commit builds for cmd: make([]LogEntry, len(cmd))
\* holds len(cmd) zero entries, and one entry per command is appended to it.
CommitEntries(cmd) ==
    [k \in 1..Len(cmd) |-> LogEntry(0, 0, NilCommand)]
        \o [k \in 1..Len(cmd) |-> LogEntry(0, currentTerm[Self], cmd[k])]

\* leader.Commit: the entries are appended to the log and a round begins.
Commit(cmd) ==
    /\ role[Self] = "Leader"
    /\ runPc # "round"
    /\ CanStartRound
    /\ Len(log) + Len(CommitEntries(cmd)) <= MaxLog
    /\ log' = LogAppend(log, CommitEntries(cmd))
    /\ StartRound
    /\ UNCHANGED <<nodeVars, call, commitIndex, applyVars, nextIndex, matchIndex, runPc,
                   stopped, loopPc>>

\* raft.Stop: close(r.done).
Stop ==
    /\ ~stopped
    /\ stopped' = TRUE
    /\ UNCHANGED <<nodeVars, call, log, commitIndex, applyVars, nextIndex, matchIndex,
                   task, round, runPc, loopPc, calcSkip>>

\* The apply worker calls ApplyCommitted; the callback applies appliedCount
\* of the commands it is given.  The worker then waits for the next signal.
CallApplyCommitted(appliedCount) ==
    /\ appliedCount \in 0..Len(CommittedEntries)
    /\ ApplyCommitted(appliedCount)
    /\ loopPc' = "waiting"
    /\ UNCHANGED <<nodeVars, call, log, commitIndex, nextIndex, matchIndex, task, round,
                   runPc, stopped, calcSkip>>

\* The command lists clients hand to Handle.
CommitInputs == {<<1>>, <<2, 1>>}

\* The logs a node can hold when it converts to Leader of LeaderTerm.
InitLogs ==
    { <<>> } \cup
    { <<LogEntry(1, t, 1)>> : t \in 1..LeaderTerm }

\* The node after raft.New: Self has won LeaderTerm (votedFor is itself) and
\* initServer has run ToLeader.
InitSelf ==
    /\ log \in InitLogs
    /\ commitIndex = 0
    /\ lastApplied = 0
    /\ nextIndex = LeaderNextIndex(log)
    /\ matchIndex = LeaderMatchIndex
    /\ task = [p \in Followers |-> IdleTask]
    /\ round = IdleRound
    /\ runPc = "start"
    /\ stopped = FALSE
    /\ applied = <<>>
    /\ calcSkip = "none"
    /\ call = NoCall

Init ==
    /\ currentTerm = [n \in Nodes |-> IF n = Self THEN LeaderTerm ELSE 0]
    /\ votedFor = [n \in Nodes |-> IF n = Self THEN Self ELSE Nil]
    /\ role = [n \in Nodes |-> IF n = Self THEN "Leader" ELSE "Follower"]
    /\ votes = [n \in Nodes |-> {}]
    /\ replies = [c \in Nodes |-> [v \in Nodes |-> NoReply]]
    /\ InitSelf
    /\ loopPc = "waiting"

Next ==
    \/ RunRound
    \/ RunStopped
    \/ Stop
    \/ \E cmd \in CommitInputs : Commit(cmd)
    \/ \E p \in Followers : TaskTop(p)
    \/ \E p \in Followers : TaskError(p)
    \/ \E p \in Followers : TaskSuccess(p)
    \/ \E p \in Followers : TaskSetCommit(p)
    \/ \E p \in Followers, term \in {LeaderTerm, LeaderTerm + 1} : TaskFail(p, term)
    \/ Deadline
    \/ CloseReplicateCh
    \/ RoundReceive
    \/ RoundTimeout
    \/ \E k \in 0..MaxLog : CallApplyCommitted(k)

Spec == Init /\ [][Next]_vars

\* ------------------------------------------------- the election cluster
\* Every node starts as a Follower of term 0 with an empty log.
InitElection ==
    /\ InitNodes
    /\ InitSelf
    /\ log = <<>>
    /\ loopPc = "waiting"

NextElection ==
    \/ \E n \in Nodes : ElectionTimeout(n)
    \/ \E c \in Nodes, v \in Nodes : HandleRequestVote(c, v)
    \/ \E c \in Nodes, v \in Nodes : RecvVote(c, v)
    \/ \E c \in Nodes : BecomeLeader(c)
    \/ \E l \in Nodes, f \in Nodes : HandleHeartbeat(l, f)
    \/ \E n \in Nodes : Restart(n)

SpecElection == InitElection /\ [][NextElection]_vars

\* ------------------------------------- a node that receives AppendEntries
\* The AppendEntries handler of node Self for a call of the leader of its
\* term: the entries are appended after prevLogIndex when the log matches
\* there, and the leader's commit index is synced.
HandleAppendEntries(prevLogIndex, prevLogTerm, entries, leaderCommit) ==
    /\ ~stopped
    /\ Match(log, prevLogIndex, prevLogTerm)
    /\ AppendAt(log, prevLogIndex, entries)[1]
    /\ log' = AppendAt(log, prevLogIndex, entries)[2]
    /\ syncLeaderCommit(log', leaderCommit)
    /\ UNCHANGED <<nodeVars, call, applyVars, leaderVars, stopped>>

\* loopApplyCommitted at the top of its for loop: it returns when done is
\* closed; otherwise the function literal declares lastApplied and
\* commitIndex as zero, finds lastApplied <= commitIndex and waits.
LoopSelect ==
    /\ loopPc = "select"
    /\ loopPc' = IF stopped THEN "exited"
                 ELSE LET la0 == 0
                          ci0 == 0
                      IN IF la0 <= ci0 THEN "waiting" ELSE "select"
    /\ UNCHANGED <<nodeVars, call, log, commitIndex, applyVars, leaderVars, stopped>>

\* commitCond.Wait returns: the loop reads commitIndex and lastApplied,
\* waits again while lastApplied <= commitIndex, and otherwise calls
\* ApplyCommitted and goes back to the top.
LoopWake(appliedCount) ==
    /\ loopPc = "woken"
    /\ IF lastApplied <= commitIndex
       THEN /\ appliedCount = 0
            /\ loopPc' = "waiting"
            /\ UNCHANGED applyVars
       ELSE /\ appliedCount \in 0..Len(CommittedEntries)
            /\ ApplyCommitted(appliedCount)
            /\ loopPc' = "select"
    /\ UNCHANGED <<nodeVars, call, log, commitIndex, leaderVars, stopped>>

\* The entries a leader of the node's term can send after prevLogIndex.
SentEntries ==
    { <<>> } \cup { <<LogEntry(0, t, 1)>> : t \in 1..LeaderTerm }

\* Node Self is a Follower of LeaderTerm whose Run has started the apply loop.
InitLoop ==
    /\ currentTerm = [n \in Nodes |-> LeaderTerm]
    /\ votedFor = [n \in Nodes |-> Nil]
    /\ role = [n \in Nodes |-> "Follower"]
    /\ votes = [n \in Nodes |-> {}]
    /\ replies = [c \in Nodes |-> [v \in Nodes |-> NoReply]]
    /\ InitSelf
    /\ loopPc = "select"

NextLoop ==
    \/ \E prevLogIndex \in 0..MaxLog, prevLogTerm \in 0..LeaderTerm,
          entries \in SentEntries, leaderCommit \in 0..MaxLog :
            /\ prevLogIndex + Len(entries) <= MaxLog
            /\ HandleAppendEntries(prevLogIndex, prevLogTerm, entries, leaderCommit)
    \/ LoopSelect
    \/ \E k \in 0..MaxLog : LoopWake(k)
    \/ Stop

\* The Go scheduler runs a goroutine that can run: the apply loop's own
\* steps are weakly fair.  Calls from the leader and Stop are not.
SpecLoop ==
    /\ InitLoop
    /\ [][NextLoop]_vars
    /\ WF_vars(LoopSelect)
    /\ WF_vars(\E k \in 0..MaxLog : LoopWake(k))

\* ------------------------------------------------------- calls of the log
\* The terms and commands of the entries handed to the log.  Callers leave
\* Index unset (0) or set it to anything: the log assigns it.
LogTerms == {1, 2}
LogCommands == {1, 2}
LogEntries == { LogEntry(0, t, c) : t \in LogTerms, c \in LogCommands }
EntryLists ==
    { <<>> } \cup { <<e>> : e \in LogEntries }
             \cup { <<e, f>> : e \in LogEntries, f \in LogEntries }

\* The variables the calls of the log leave alone.
nonLogVars == <<nodeVars, commitIndex, applyVars, leaderVars, stopped, loopPc>>

\* memoryLog.Append(entries...)
CallAppend(entries) ==
    /\ Len(log) + Len(entries) <= MaxLog
    /\ log' = LogAppend(log, entries)
    /\ call' = Called("Append", log, 0, 0, 0, entries, TRUE, <<>>)
    /\ UNCHANGED nonLogVars

\* memoryLog.AppendAt(prevIndex, entries...)
CallAppendAt(prevIndex, entries) ==
    /\ prevIndex + Len(entries) <= MaxLog + 1
    /\ LET r == AppendAt(log, prevIndex, entries)
       IN /\ Len(r[2]) <= MaxLog
          /\ log' = r[2]
          /\ call' = Called("AppendAt", log, prevIndex, 0, 0, entries, r[1], <<>>)
    /\ UNCHANGED nonLogVars

\* memoryLog.AppendEntry(entry)
CallAppendEntry(entry) ==
    /\ Len(log) < MaxLog
    /\ LET r == AppendEntry(log, entry)
       IN /\ log' = r[2]
          /\ call' = Called("AppendEntry", log, r[1], 0, 0, <<entry>>, TRUE, <<>>)
    /\ UNCHANGED nonLogVars

\* memoryLog.Match(index, term)
CallMatch(index, term) ==
    /\ call' = Called("Match", log, index, 0, term, <<>>, Match(log, index, term), <<>>)
    /\ UNCHANGED <<log, nonLogVars>>

\* memoryLog.RangeGet(i, j)
CallRangeGet(i, j) ==
    /\ call' = Called("RangeGet", log, i, j, 0, <<>>, TRUE, RangeGet(log, i, j))
    /\ UNCHANGED <<log, nonLogVars>>

\* A new memoryLog: the queue is empty.
InitLog ==
    /\ InitNodes
    /\ InitSelf
    /\ log = <<>>
    /\ loopPc = "select"

NextLog ==
    \/ \E entries \in EntryLists : CallAppend(entries)
    \/ \E prevIndex \in 0..(MaxLog + 1), entries \in EntryLists :
          CallAppendAt(prevIndex, entries)
    \/ \E entry \in LogEntries : CallAppendEntry(entry)
    \/ \E index \in 0..(MaxLog + 1), term \in {0} \cup LogTerms : CallMatch(index, term)
    \/ \E i \in 0..(MaxLog + 1), j \in 0..(MaxLog + 1) : CallRangeGet(i, j)

SpecLog == InitLog /\ [][NextLog]_vars

\* ------------------------------------------------ calls of ApplyCommitted
\* The record of a call of ApplyCommitted or syncLeaderCommit: the commands
\* handed to the apply callback, the appliedCount it returned, lastApplied
\* before the call, the call before this one and whether that one was an
\* ApplyCommitted whose callback applied all it was given.
CalledApply(op, commands, appliedCount) ==
    [op |-> op, commands |-> commands, appliedCount |-> appliedCount,
     before |-> lastApplied, prev |-> call.op,
     prevFull |-> /\ call.op = "ApplyCommitted"
                  /\ call.appliedCount = Len(call.commands)]

\* raft.ApplyCommitted, with a callback that applies appliedCount of the
\* commands it is given.
CallApply(appliedCount) ==
    /\ appliedCount \in 0..Len(CommittedEntries)
    /\ ApplyCommitted(appliedCount)
    /\ call' = CalledApply("ApplyCommitted", CommittedEntries, appliedCount)
    /\ UNCHANGED <<nodeVars, log, commitIndex, leaderVars, stopped, loopPc>>

\* raft.syncLeaderCommit with a leaderCommit above commitIndex.
CallSyncLeaderCommit(leaderCommit) ==
    /\ leaderCommit > commitIndex
    /\ syncLeaderCommit(log, leaderCommit)
    /\ commitIndex' # commitIndex
    /\ call' = CalledApply("syncLeaderCommit", <<>>, 0)
    /\ UNCHANGED <<nodeVars, log, applyVars, leaderVars, stopped>>

\* The logs of the node: what two Append calls store in an empty log.
ApplyLogs ==
    { LogAppend(LogAppend(<<>>, es), fs) : es \in EntryLists, fs \in EntryLists }

\* A Follower that has applied nothing, with one of these logs.
InitApply ==
    /\ InitNodes
    /\ log \in ApplyLogs
    /\ Len(log) <= MaxLog
    /\ commitIndex = 0
    /\ lastApplied = 0
    /\ nextIndex = LeaderNextIndex(<<>>)
    /\ matchIndex = LeaderMatchIndex
    /\ task = [p \in Followers |-> IdleTask]
    /\ round = IdleRound
    /\ runPc = "start"
    /\ stopped = FALSE
    /\ applied = <<>>
    /\ calcSkip = "none"
    /\ call = NoCall
    /\ loopPc = "waiting"

NextApply ==
    \/ \E appliedCount \in 0..MaxLog : CallApply(appliedCount)
    \/ \E leaderCommit \in 1..(MaxLog + 1) : CallSyncLeaderCommit(leaderCommit)

SpecApply == InitApply /\ [][NextApply]_vars

\* --------------------------------------------------------------- claims
\* C1: Election Safety.  In every reachable state of the cluster no two
\* nodes are Leader of the same term.
C1_ElectionSafety ==
    \A a \in Nodes, b \in Nodes :
        (role[a] = "Leader" /\ role[b] = "Leader" /\ currentTerm[a] = currentTerm[b])
            => a = b

\* C2: a replication round returns success (nil) only if the peers that
\* answered with success during the round, plus the leader itself, are
\* strictly more than half of the configured peers.
C2_SuccessNeedsMajority ==
    round.result = "nil" => 2 * (round.acks + 1) > NumNodes

\* C3: once a peer goroutine of the Leader has processed a response whose
\* term is above the term it sent, the node has adopted that term, cleared
\* votedFor and left the Leader role for Follower.
C3_StepDownOnHigherTerm ==
    \A p \in Followers :
        task[p].respTerm > task[p].term =>
            /\ currentTerm[Self] = task[p].respTerm
            /\ votedFor[Self] = Nil
            /\ role[Self] = "Follower"

\* C4: on a running node, whenever commitIndex is above lastApplied and the
\* apply loop has been signalled, the loop eventually has applied every
\* committed entry the log holds (or the node is stopped).
C4_ApplyLiveness ==
    (~stopped /\ loopPc = "woken" /\ lastApplied < commitIndex)
        ~> (stopped \/ lastApplied >= Min(commitIndex, LastIndex(log)))

\* C5: the entries counted as applied are those of index 1, 2, 3, ... in
\* this order, none skipped and none twice, and lastApplied counts them.
C5_AppliedInOrder ==
    /\ Len(applied) = lastApplied
    /\ \A k \in 1..Len(applied) : applied[k] = k

\* C5 witness: two entries have been applied, in one call or in two.
C5_Witness == Len(applied) = 2 /\ lastApplied = 2

\* C6: prior-term guard.  The Leader changes commitIndex, or wakes the apply
\* loop, only in a step where the last log entry and the entry at the new
\* commitIndex are both of its currentTerm.
C6_PriorTermGuard ==
    [][(commitIndex' # commitIndex \/ (loopPc = "waiting" /\ loopPc' = "woken"))
          => /\ LastTerm(log) = currentTerm[Self]
             /\ Get(log, commitIndex') = currentTerm[Self]]_vars

\* C6 witness: calcCommitIndex found a majority index above commitIndex
\* whose entry is of an earlier term, and left commitIndex alone.
C6_Witness == calcSkip = "priorTerm" /\ Get(log, 1) = LeaderTerm - 1

\* C7: monotonicity.  No step decreases currentTerm, commitIndex or
\* lastApplied of the node.
C7_Monotonic ==
    [][/\ currentTerm'[Self] >= currentTerm[Self]
       /\ commitIndex' >= commitIndex
       /\ lastApplied' >= lastApplied]_vars

\* C8: in every reachable state lastApplied <= commitIndex <= index of the
\* last log entry.
C8_IndexOrder ==
    /\ lastApplied <= commitIndex
    /\ commitIndex <= LastIndex(log)

\* C9: for every peer p of the Leader, matchIndex[p] < nextIndex[p].
C9_MatchBelowNext ==
    \A p \in Nodes : matchIndex[p] < nextIndex[p]

\* C10: after Stop the apply loop eventually exits.
C10_StopTerminates == stopped ~> (loopPc = "exited")

\* C11: Match(index, term) returns true if and only if index and term are
\* both 0 or the log holds an entry at index whose term is term; beyond the
\* last index it returns false for every term.
C11_MatchIff ==
    call.op = "Match" =>
        (call.ok <=>
            \/ call.index = 0 /\ call.term = 0
            \/ /\ call.index \in 1..LastIndex(call.queue)
               /\ call.queue[call.index].Term = call.term)

\* C12 as stated: RangeGet(i, j) returns the entries of index in (i, j] when
\* i < j <= last index, and nothing when j <= i or j is beyond the last index.
C12_RangeGetExact ==
    call.op = "RangeGet" =>
        call.result =
            IF call.index < call.j /\ call.j <= LastIndex(call.queue)
            THEN SubSeq(call.queue, call.index + 1, call.j)
            ELSE <<>>

\* C12 amended: RangeGet(i, j) returns nothing when j <= i, and otherwise the
\* entries of index in (i, j] that the log holds, in index order: those of
\* index in (i, min(j, last index)].
C12_RangeGetClamped ==
    call.op = "RangeGet" =>
        /\ call.result =
              IF call.index < call.j
              THEN SubSeq(call.queue, call.index + 1, Min(call.j, LastIndex(call.queue)))
              ELSE <<>>
        /\ \A k \in 1..Len(call.result) : call.result[k].Index = call.index + k

\* C12 witness: a range that ends beyond the last index and returns entries.
C12_Witness ==
    /\ call.op = "RangeGet"
    /\ call.j > LastIndex(call.queue)
    /\ call.index >= 1
    /\ Len(call.result) = 2

\* C13: AppendAt(prevIndex, entries) with prevIndex <= last index keeps the
\* entries 1..prevIndex, removes the others and stores the given entries at
\* prevIndex+1..prevIndex+len(entries); with prevIndex > last index it fails
\* and leaves the log as it was.
C13_AppendAt ==
    call.op = "AppendAt" =>
        IF call.index <= LastIndex(call.queue)
        THEN /\ call.ok
             /\ Len(log) = call.index + Len(call.entries)
             /\ SubSeq(log, 1, call.index) = SubSeq(call.queue, 1, call.index)
             /\ \A k \in 1..Len(call.entries) :
                   log[call.index + k] =
                       [call.entries[k] EXCEPT !.Index = call.index + k]
        ELSE ~call.ok /\ log = call.queue

\* C13 witness: an AppendAt that removed a suffix and appended an entry.
C13_Witness ==
    /\ call.op = "AppendAt"
    /\ call.ok
    /\ call.index + 2 <= Len(call.queue)
    /\ Len(call.entries) = 1

\* C14: after a successful AppendAt(prevIndex, entries),
\* RangeGet(prevIndex, prevIndex + len(entries)) returns those entries in
\* order, the k-th with index prevIndex + k, and Last reports the index
\* prevIndex + len(entries).
C14_RoundTrip ==
    (call.op = "AppendAt" /\ call.ok) =>
        LET got == RangeGet(log, call.index, call.index + Len(call.entries))
        IN /\ Len(got) = Len(call.entries)
           /\ \A k \in 1..Len(call.entries) :
                 /\ got[k].Term = call.entries[k].Term
                 /\ got[k].Command = call.entries[k].Command
                 /\ got[k].Index = call.index + k
           /\ LastIndex(log) = call.index + Len(call.entries)

\* C14 witness: two entries appended after a non-empty prefix.
C14_Witness ==
    /\ call.op = "AppendAt"
    /\ call.ok
    /\ call.index >= 1
    /\ Len(call.entries) = 2

\* C15: after any sequence of Append, AppendAt and AppendEntry the k-th
\* stored entry has Index k and the terms of the stored entries never
\* decrease along the log.
C15_LogInvariants ==
    /\ \A k \in 1..Len(log) : log[k].Index = k
    /\ \A k \in 1..(Len(log) - 1) : log[k].Term <= log[k + 1].Term

\* C16 as stated: an ApplyCommitted call that follows another one, with no
\* commitIndex advance in between, hands no command to the apply callback
\* and leaves lastApplied unchanged.
C16_SecondCallNoOp ==
    (call.op = "ApplyCommitted" /\ call.prev = "ApplyCommitted") =>
        (call.commands = <<>> /\ lastApplied = call.before)

\* C16 amended: an ApplyCommitted call that follows one whose callback
\* applied every command it was given, with no commitIndex advance in
\* between, hands no command to the callback and leaves lastApplied unchanged.
C16_SecondCallNoOpAfterFull ==
    (call.op = "ApplyCommitted" /\ call.prev = "ApplyCommitted" /\ call.prevFull) =>
        (call.commands = <<>> /\ lastApplied = call.before)

\* C16 witness: the second of two calls, the first of which applied two
\* commands.
C16_Witness ==
    /\ call.op = "ApplyCommitted"
    /\ call.prev = "ApplyCommitted"
    /\ call.prevFull
    /\ applied = <<1, 2>>

\* C17: leader.Commit of n commands grows the log by exactly n entries, the
\* k-th carrying the k-th command and currentTerm at index old last index + k;
\* nothing else is added or changed.  (In Spec only Commit changes the log.)
C17_CommitAppendsN ==
    [][log' # log =>
          \E cmd \in CommitInputs :
              log' = log \o [k \in 1..Len(cmd) |->
                               LogEntry(LastIndex(log) + k, currentTerm[Self], cmd[k])]]_vars

\* C18: when the goroutine of peer p processes a successful response (it is
\* at its call, and matchIndex[p] changes or nextIndex[p] grows), it sets
\* matchIndex[p] = prevLogIndex + len(entries) of the call and
\* nextIndex[p] = matchIndex[p] + 1.
C18_SuccessIndexes ==
    [][\A p \in Followers :
          (/\ task[p].pc = "called"
           /\ matchIndex'[p] # matchIndex[p] \/ nextIndex'[p] > nextIndex[p])
          => /\ matchIndex'[p] = task[p].prevLogIndex + task[p].numEntries
             /\ nextIndex'[p] = matchIndex'[p] + 1]_vars

\* C19: nextIndex[p] >= 1 for every peer p in every reachable Leader state.
C19_NextIndexFloor ==
    \A p \in Nodes : nextIndex[p] >= 1

\* The largest index stored on a strict majority of the cluster when the
\* followers hold what mi says and the leader holds its whole log.
MajorityIndex(mi) ==
    CHOOSE n \in 0..LastIndex(log) :
        /\ 2 * (Cardinality({p \in Followers : mi[p] >= n}) + 1) > NumNodes
        /\ \A m \in (n + 1)..LastIndex(log) :
              2 * (Cardinality({p \in Followers : mi[p] >= m}) + 1) <= NumNodes

\* C20: when a goroutine has stored a new matchIndex and calcCommitIndex runs
\* with the last entry in currentTerm, and the largest index N replicated on
\* a majority (the leader's last index counted) is above commitIndex with an
\* entry of currentTerm, calcCommitIndex goes on to set commitIndex to N.
C20_CommitsMajorityIndex ==
    [][\A p \in Followers :
          (/\ task[p].pc = "called"
           /\ matchIndex'[p] # matchIndex[p]
           /\ LastTerm(log) = currentTerm[Self]
           /\ MajorityIndex(matchIndex') > commitIndex
           /\ Get(log, MajorityIndex(matchIndex')) = currentTerm[Self])
          => /\ task'[p].pc = "calc"
             /\ task'[p].N = MajorityIndex(matchIndex')]_vars

====
